---- MODULE Spec2Model ----
(***************************************************************************)
(* A model of src/main.rs: the terminal animation made of a printer        *)
(* thread (the render loop over a Vec<Stream>) and the main thread (raw     *)
(* mode set-up, the key-event loop, the teardown), which communicate        *)
(* through the two SeqCst atomics `running` and `paused` and share the      *)
(* buffer of the process's stdout.                                          *)
(*                                                                          *)
(* Spec / FairSpec : the whole program, one action per statement that can   *)
(*                   interleave with the other thread, fail or panic: in    *)
(*                   an iteration of the for loop the update and each of    *)
(*                   the three queued commands, in an execute! of main the  *)
(*                   queueing and the flush.                                *)
(* SpecStream      : Stream::new followed by any number of Stream::update   *)
(*                   calls, over every direction and random outcome, at     *)
(*                   small sizes and at the edges of i16 / u16.             *)
(* SpecResize      : the same with the width changing between updates.      *)
(* SpecColor       : one call of random_color for every draw.               *)
(* SpecString      : one call of random_string for every length and a       *)
(*                   family of glyph draws.                                 *)
(*                                                                          *)
(* Integer arithmetic keeps its width. An overflow panics in a build with   *)
(* overflow checks (cargo's dev and test profiles) and wraps in one without *)
(* (the release profile); the repository fixes no profile, so an operation  *)
(* that overflows takes either outcome.                                     *)
(***************************************************************************)
EXTENDS Integers, Sequences, FiniteSets, TLC

VARIABLES
    mainPc,         \* position of the main thread in main()
    prPc,           \* position of the printer thread in its closure
    panicMsg,       \* the message of the panic that ended the printer thread
    running,        \* AtomicBool running
    paused,         \* AtomicBool paused
    current,        \* main's local `current` (line 225)
    rawMode,        \* terminal: raw mode is enabled
    cursorVisible,  \* terminal: the cursor is shown
    restored,       \* restoration commands the driver has executed so far
    screenCleared,  \* terminal: cleared and not drawn on since
    buffered,       \* stdout's buffer holds queued draw commands not yet written
    unflushed,      \* the execute! of main whose commands stdout's buffer holds
    streams,        \* the printer's Vec<Stream>, index 1 = Rust index 0
    nextId,         \* number of streams created so far (creation stamp)
    dims,           \* the (max_x, max_y) size() returned last
    sawPaused,      \* the value of `paused` the printer loaded in this tick
    drawn,          \* streams updated and queued so far in this tick
    tape,           \* calls of size / Stream::new / Stream::update made on free inputs
    spaceOdd,       \* history: an odd number of space key events was read
    tickEnd,        \* history: streams.len() at the end of the previous tick
    st,             \* SpecStream: the stream under test, or the panic that ended it
    mx,             \* SpecStream: max_x handed to new / update
    my,             \* SpecStream: max_y handed to new / update
    updated,        \* SpecStream: update has been called at least once
    probe           \* the call of a pure function under test: draws and result

progVars == <<mainPc, prPc, panicMsg, running, paused, current, rawMode,
              cursorVisible, restored, screenCleared, buffered, unflushed,
          streams, nextId,
              dims, sawPaused, drawn, tape, spaceOdd, tickEnd>>
streamVars == <<st, mx, my, updated, probe>>
vars == <<mainPc, prPc, panicMsg, running, paused, current, rawMode,
          cursorVisible, restored, screenCleared, buffered, unflushed,
          streams, nextId,
          dims, sawPaused, drawn, tape, spaceOdd, tickEnd,
          st, mx, my, updated, probe>>

----------------------------------------------------------------------------
(* Bounds of the model *)

\* streams the printer may create in one run (the creation stamp is unbounded)
MaxSpawn == 22
\* size() reports 0..MaxWidth columns (SpecStream adds the tests' width and
\* the widths at the edge of i16 / u16)
MaxWidth == 4
\* size() reports 0..MaxHeight rows
MaxHeight == 1
\* a stream is followed in the rows 0..YCap, and within YCap rows of i16::MAX
\* and of u16::MAX
YCap == 2
\* a single stream (SpecStream, SpecResize) is followed in every column of a
\* width up to the tests' width; under a wider width it is followed in the
\* columns 0..XCap ...
XCap == 8
\* ... and at every width within Margin columns of i16::MAX, of max_x and of
\* u16::MAX
Margin == 3
\* the first MaxTape calls of size / Stream::new / Stream::update of a run of
\* the program take any outcome; the later ones take the first value of their
\* range (and the size <<MaxWidth, MaxHeight>>)
MaxTape == 3

----------------------------------------------------------------------------
(* Program constants *)

\* streams.len() > 20
MaxStreams == 20
\* Stream::new(80, 24) of the tests
TestWidth == 80

U16 == 65536
\* i16::MAX and i16::MIN
I16Max == 32767
I16Min == -32768

\* `v as i16` of a u16
AsI16(v) == IF v > I16Max THEN v - U16 ELSE v
\* `v as u16` of an i16
AsU16(v) == v % U16
\* the i16 an arithmetic result wraps to in a build without overflow checks
WrapI16(v) == ((v - I16Min) % U16) + I16Min
\* the result of an i16 operation fits: a build with overflow checks goes on
FitsI16(v) == I16Min <= v /\ v <= I16Max

\* the two kinds of build: overflow checks on (dev, test), off (release)
Builds == {"debug", "release"}

\* a panic unwinds the thread; the value carries its message
Panic(msg) == [panic |-> msg]
IsPanic(r) == "panic" \in DOMAIN r

----------------------------------------------------------------------------
(* Direction *)

Directions == {"Left", "Right", "Up", "Down",
               "UpLeft", "UpRight", "DownLeft", "DownRight"}

\* Direction::random, given the outcome n of rng.gen_range(0..8)
DirectionRandom(n) ==
    CASE n = 0 -> "Left"
      [] n = 1 -> "Right"
      [] n = 2 -> "Up"
      [] n = 3 -> "Down"
      [] n = 4 -> "UpLeft"
      [] n = 5 -> "UpRight"
      [] n = 6 -> "DownLeft"
      [] OTHER -> "DownRight"

\* Direction::get_offset
GetOffset(d) ==
    CASE d = "Left"      -> <<-1, 0>>
      [] d = "Right"     -> <<1, 0>>
      [] d = "Up"        -> <<0, -1>>
      [] d = "Down"      -> <<0, 1>>
      [] d = "UpLeft"    -> <<-1, -1>>
      [] d = "UpRight"   -> <<1, -1>>
      [] d = "DownLeft"  -> <<-1, 1>>
      [] d = "DownRight" -> <<1, 1>>

----------------------------------------------------------------------------
(* Stream *)

\* Stream::new(max_x, max_y), given the three draws; gen_range panics on an
\* empty range
StreamNew(max_x, max_y, xDraw, yDraw, dirDraw) ==
    IF max_x = 0 \/ max_y = 0
    THEN Panic("cannot sample empty range")
    ELSE [x |-> xDraw, y |-> yDraw, direction |-> DirectionRandom(dirDraw)]

\* the condition of the `if` of Stream::update (line 117) as it evaluates
\* when it does not panic; trial is rng.gen_bool(0.1)
Turns(new_x, new_y, max_x, trial) ==
    new_x <= 0 \/ new_x >= WrapI16(AsI16(max_x) - 2) \/ new_y <= 0 \/ trial

\* the first operation of Stream::update that overflows, in the order the
\* code evaluates them, or "none"
UpdateOverflow(s, max_x, trial) ==
    LET off   == GetOffset(s.direction)
        sum_x == AsI16(s.x) + off[1]
        sum_y == AsI16(s.y) + off[2]
        new_x == WrapI16(sum_x)
        new_y == WrapI16(sum_y)
    IN  IF ~FitsI16(sum_x) \/ ~FitsI16(sum_y)
        THEN "attempt to add with overflow"             \* lines 114, 115
        ELSE IF new_x > 0 /\ ~FitsI16(AsI16(max_x) - 2)
        THEN "attempt to subtract with overflow"        \* line 117, after new_x <= 0
        ELSE IF ~Turns(new_x, new_y, max_x, trial)
        THEN "none"
        ELSE IF ~FitsI16(AsI16(max_x) - 1)
        THEN "attempt to subtract with overflow"        \* line 123
        ELSE IF new_x >= AsI16(max_x) - 1 /\ max_x < 2
        THEN "attempt to subtract with overflow"        \* line 124, in u16
        ELSE "none"

\* Stream::update(max_x, _), given the outcome of the trial and of
\* Direction::random (the draw is made only on the branch that turns) and the
\* build; the stream after the call, or the panic
StreamUpdate(s, max_x, trial, dirDraw, build) ==
    LET off   == GetOffset(s.direction)
        new_x == WrapI16(AsI16(s.x) + off[1])
        new_y == WrapI16(AsI16(s.y) + off[2])
    IN  IF build = "debug" /\ UpdateOverflow(s, max_x, trial) # "none"
        THEN Panic(UpdateOverflow(s, max_x, trial))
        ELSE IF Turns(new_x, new_y, max_x, trial)
        THEN [direction |-> DirectionRandom(dirDraw),
              x |-> IF new_x >= WrapI16(AsI16(max_x) - 1) THEN (max_x - 2) % U16
                    ELSE IF new_x <= 0 THEN 1
                    ELSE s.x,
              y |-> IF new_y <= 0 THEN 1 ELSE s.y]
        ELSE [direction |-> s.direction,
              x |-> AsU16(new_x),
              y |-> AsU16(new_y)]

----------------------------------------------------------------------------
(* The inputs of the printer thread *)

\* the sizes size() can report
Sizes == (0..MaxWidth) \X (0..MaxHeight)
\* the call being made is one of the first MaxTape
OnTape == tape < MaxTape
\* the tape after the call
Advance == IF OnTape THEN tape + 1 ELSE tape
\* the outcomes of size() -> Ok
SizeOutcomes == IF OnTape THEN Sizes ELSE {<<MaxWidth, MaxHeight>>}
\* the outcomes of rng.gen_range(0..n)
RangeOutcomes(n) == IF OnTape THEN 0..(n - 1) ELSE {0}
\* the outcomes of rng.gen_bool(0.1) in the update of s; a stream about to
\* scroll below row YCap is taken to turn
TrialOutcomes(s) ==
    IF s.y + GetOffset(s.direction)[2] > YCap THEN {TRUE}
    ELSE IF OnTape THEN BOOLEAN
    ELSE {FALSE}

----------------------------------------------------------------------------
(* The printer thread: the closure of thread::spawn *)

Exited == {"exit_ok", "exit_err", "panicked"}
\* the process, and with it the printer thread, lives until the runtime has
\* cleaned up after main returned or panicked
ProcessAlive == mainPc \notin Exited
PrinterTerminated == prPc \in {"done", "panicked"}

\* while printer_running.load(SeqCst)
LoopContinues(runningRead) == runningRead
\* mutant: the tick renders whatever `paused` says
TickRenders_Always(pausedRead) == TRUE
\* if !printer_paused.load(SeqCst)
TickRenders(pausedRead) == ~pausedRead
\* rng.gen_bool(CHAOS) succeeded: streams.push(Stream::new(max_x, max_y))
Push(s, new) == Append(s, new)
\* mutant: the cap is compared one too high
Evict_OffByOne(s) == IF Len(s) > MaxStreams + 1 THEN Tail(s) ELSE s
\* mutant: the newest stream is removed (streams.pop())
Evict_Newest(s) == IF Len(s) > MaxStreams THEN SubSeq(s, 1, Len(s) - 1) ELSE s
\* mutant: above the cap the collection is emptied (streams.clear())
Evict_Clear(s) == IF Len(s) > MaxStreams THEN <<>> ELSE s
\* mutant: nothing is ever removed
Evict_Never(s) == s
\* if streams.len() > 20 { streams.remove(0); }
Evict(s) == IF Len(s) > MaxStreams THEN Tail(s) ELSE s
\* the position of the printer before the for loop over s: its first
\* iteration, or past the loop
LoopEntry(s) == IF Len(s) = 0 THEN "flush" ELSE "update"

PrinterCheckRunning ==
    /\ ProcessAlive /\ prPc = "loop"
    /\ prPc' = IF LoopContinues(running) THEN "paused?" ELSE "done"
    /\ drawn' = 0
    /\ UNCHANGED streamVars
    /\ UNCHANGED <<mainPc, panicMsg, running, paused, current, rawMode,
                   cursorVisible, restored, screenCleared, buffered, unflushed, streams,
                   nextId, dims, sawPaused, tape, spaceOdd, tickEnd>>

\* mutant: the flag is consumed (swap(false)) instead of loaded
PrinterCheckPaused_Swap ==
    /\ ProcessAlive /\ prPc = "paused?"
    /\ sawPaused' = paused
    /\ paused' = FALSE
    /\ prPc' = IF TickRenders(paused) THEN "size" ELSE "sleep"
    /\ UNCHANGED streamVars
    /\ UNCHANGED <<mainPc, panicMsg, running, current, rawMode,
                   cursorVisible, restored, screenCleared, buffered, unflushed, streams,
                   nextId, dims, drawn, tape, spaceOdd, tickEnd>>

PrinterCheckPaused ==
    /\ ProcessAlive /\ prPc = "paused?"
    /\ sawPaused' = paused
    /\ prPc' = IF TickRenders(paused) THEN "size" ELSE "sleep"
    /\ UNCHANGED streamVars
    /\ UNCHANGED <<mainPc, panicMsg, running, paused, current, rawMode,
                   cursorVisible, restored, screenCleared, buffered, unflushed, streams,
                   nextId, dims, drawn, tape, spaceOdd, tickEnd>>

\* if let Ok((max_x, max_y)) = size()
PrinterSizeOk ==
    /\ ProcessAlive /\ prPc = "size"
    /\ \E d \in SizeOutcomes : dims' = d
    /\ tape' = Advance
    /\ prPc' = "chaos"
    /\ UNCHANGED streamVars
    /\ UNCHANGED <<mainPc, panicMsg, running, paused, current, rawMode,
                   cursorVisible, restored, screenCleared, buffered, unflushed, streams,
                   nextId, sawPaused, drawn, spaceOdd, tickEnd>>

\* size() returned Err: the body of the if let is skipped
PrinterSizeErr ==
    /\ ProcessAlive /\ prPc = "size"
    /\ prPc' = "evict"
    /\ UNCHANGED streamVars
    /\ UNCHANGED <<mainPc, panicMsg, running, paused, current, rawMode,
                   cursorVisible, restored, screenCleared, buffered, unflushed, streams,
                   nextId, dims, sawPaused, drawn, tape, spaceOdd, tickEnd>>

\* rng.gen_bool(CHAOS) -> true: streams.push(Stream::new(max_x, max_y))
PrinterSpawn ==
    /\ ProcessAlive /\ prPc = "chaos"
    /\ nextId < MaxSpawn
    /\ \E xd \in RangeOutcomes(dims[1]), yd \in RangeOutcomes(dims[2]),
          dd \in RangeOutcomes(Cardinality(Directions)) :
          LET new == StreamNew(dims[1], dims[2], xd, yd, dd)
          IN  /\ ~IsPanic(new)
              /\ streams' = Push(streams, [id |-> nextId] @@ new)
    /\ nextId' = nextId + 1
    /\ tape' = Advance
    /\ prPc' = LoopEntry(streams')
    /\ UNCHANGED streamVars
    /\ UNCHANGED <<mainPc, panicMsg, running, paused, current, rawMode,
                   cursorVisible, restored, screenCleared, buffered, unflushed,
                   dims, sawPaused, drawn, spaceOdd, tickEnd>>

\* rng.gen_bool(CHAOS) -> true at a terminal of no columns or no rows:
\* Stream::new panics in gen_range and the thread ends
PrinterSpawnPanic ==
    /\ ProcessAlive /\ prPc = "chaos"
    /\ LET new == StreamNew(dims[1], dims[2], 0, 0, 0)
       IN  /\ IsPanic(new)
           /\ panicMsg' = new.panic
    /\ prPc' = "panicked"
    /\ UNCHANGED streamVars
    /\ UNCHANGED <<mainPc, running, paused, current, rawMode,
                   cursorVisible, restored, screenCleared, buffered, unflushed, streams,
                   nextId, dims, sawPaused, drawn, tape, spaceOdd, tickEnd>>

\* rng.gen_bool(CHAOS) -> false
PrinterNoSpawn ==
    /\ ProcessAlive /\ prPc = "chaos"
    /\ prPc' = LoopEntry(streams)
    /\ UNCHANGED streamVars
    /\ UNCHANGED <<mainPc, panicMsg, running, paused, current, rawMode,
                   cursorVisible, restored, screenCleared, buffered, unflushed, streams,
                   nextId, dims, sawPaused, drawn, tape, spaceOdd, tickEnd>>

\* the outcomes of stream.update(max_x, max_y) for the stream s: a stream or
\* a panic
UpdateOutcomes(s, max_x) ==
    { StreamUpdate(s, max_x, trial, dd, build) :
          trial \in TrialOutcomes(s),
          dd \in RangeOutcomes(Cardinality(Directions)),
          build \in Builds }

\* the three commands of the last execute!, in order
FinalCommands == <<"color", "clear", "origin">>
AllRestoration == {"show", "raw_off", "color", "clear", "origin"}

\* what the terminal shows once the content of stdout's buffer is written to
\* it: the draw commands of the printer, then the commands of main
WrittenCursor ==
    IF unflushed = "hide" THEN FALSE
    ELSE IF unflushed = "show" THEN TRUE
    ELSE cursorVisible
WrittenRestored ==
    restored \cup (IF unflushed = "show" THEN {"show"}
                   ELSE IF unflushed = "final"
                        THEN {FinalCommands[i] : i \in 1..Len(FinalCommands)}
                   ELSE {})
WrittenCleared ==
    IF unflushed = "final" THEN TRUE
    ELSE IF buffered \/ unflushed = "status" THEN FALSE
    ELSE screenCleared
BufferEmpty == ~buffered /\ unflushed = "none"

\* the content of stdout's buffer is written to the terminal
WriteOut ==
    /\ cursorVisible' = WrittenCursor
    /\ restored' = WrittenRestored
    /\ screenCleared' = WrittenCleared

\* queue! hands a command to stdout in several write_all calls, one per
\* piece of its escape sequence, each under its own lock of stdout. One such
\* write: the piece goes to the buffer; when the buffer is full, what it held
\* is written to the terminal first
QueueCommand ==
    /\ \E spill \in (IF BufferEmpty THEN {FALSE} ELSE BOOLEAN) :
          IF spill
          THEN WriteOut /\ unflushed' = "none"
          ELSE UNCHANGED <<cursorVisible, restored, screenCleared, unflushed>>
    /\ buffered' = TRUE

\* the positions of the printer inside queue!: before the first write of a
\* command, and (_rest) between the writes of a command that takes several
InQueue == {"moveto", "moveto_rest", "color", "color_rest", "print"}

\* an iteration of the for loop, first statement: stream.update(max_x, max_y)
\* returns
PrinterUpdate ==
    /\ ProcessAlive /\ prPc = "update"
    /\ drawn < Len(streams)
    /\ \E r \in UpdateOutcomes(streams[drawn + 1], dims[1]) :
          LET i == drawn + 1
          IN  /\ ~IsPanic(r)
              /\ streams' = [streams EXCEPT ![i] = [id |-> streams[i].id] @@ r]
    /\ prPc' = "moveto"
    /\ tape' = Advance
    /\ UNCHANGED streamVars
    /\ UNCHANGED <<mainPc, panicMsg, running, paused, current, rawMode,
                   cursorVisible, restored, screenCleared, buffered, unflushed,
                   nextId, dims, sawPaused, drawn, spaceOdd, tickEnd>>

\* an iteration of the for loop in which stream.update panics on an
\* arithmetic overflow: the thread ends
PrinterUpdatePanic ==
    /\ ProcessAlive /\ prPc = "update"
    /\ drawn < Len(streams)
    /\ \E r \in UpdateOutcomes(streams[drawn + 1], dims[1]) :
          /\ IsPanic(r)
          /\ panicMsg' = r.panic
    /\ prPc' = "panicked"
    /\ tape' = Advance
    /\ UNCHANGED streamVars
    /\ UNCHANGED <<mainPc, running, paused, current, rawMode,
                   cursorVisible, restored, screenCleared, buffered, unflushed,
                   streams, nextId, dims, sawPaused, drawn, spaceOdd, tickEnd>>

\* queue!: the first piece of MoveTo(stream.x, stream.y) is written to stdout
PrinterMoveTo ==
    /\ ProcessAlive /\ prPc = "moveto"
    /\ QueueCommand
    /\ prPc' = "moveto_rest"
    /\ UNCHANGED streamVars
    /\ UNCHANGED <<mainPc, panicMsg, running, paused, current, rawMode,
                   streams, nextId, dims, sawPaused, drawn, tape, spaceOdd,
                   tickEnd>>

\* queue!: a further piece of MoveTo is written, the last one or one before it
PrinterMoveToRest ==
    /\ ProcessAlive /\ prPc = "moveto_rest"
    /\ QueueCommand
    /\ \E last \in BOOLEAN : prPc' = IF last THEN "color" ELSE "moveto_rest"
    /\ UNCHANGED streamVars
    /\ UNCHANGED <<mainPc, panicMsg, running, paused, current, rawMode,
                   streams, nextId, dims, sawPaused, drawn, tape, spaceOdd,
                   tickEnd>>

\* queue!: random_color() is called and the first piece of
\* SetForegroundColor is written
PrinterColor ==
    /\ ProcessAlive /\ prPc = "color"
    /\ QueueCommand
    /\ prPc' = "color_rest"
    /\ UNCHANGED streamVars
    /\ UNCHANGED <<mainPc, panicMsg, running, paused, current, rawMode,
                   streams, nextId, dims, sawPaused, drawn, tape, spaceOdd,
                   tickEnd>>

\* queue!: a further piece of SetForegroundColor is written, the last one or
\* one before it
PrinterColorRest ==
    /\ ProcessAlive /\ prPc = "color_rest"
    /\ QueueCommand
    /\ \E last \in BOOLEAN : prPc' = IF last THEN "print" ELSE "color_rest"
    /\ UNCHANGED streamVars
    /\ UNCHANGED <<mainPc, panicMsg, running, paused, current, rawMode,
                   streams, nextId, dims, sawPaused, drawn, tape, spaceOdd,
                   tickEnd>>

\* queue!: random_string() is called and Print, a single piece, is written;
\* the iteration ends
PrinterPrint ==
    /\ ProcessAlive /\ prPc = "print"
    /\ QueueCommand
    /\ drawn' = drawn + 1
    /\ prPc' = IF drawn + 1 = Len(streams) THEN "flush" ELSE "update"
    /\ UNCHANGED streamVars
    /\ UNCHANGED <<mainPc, panicMsg, running, paused, current, rawMode,
                   streams, nextId, dims, sawPaused, tape, spaceOdd, tickEnd>>

\* queue!: a write of one of the three commands returns Err, the commands
\* after it are not evaluated and .unwrap() panics
PrinterQueueErr ==
    /\ ProcessAlive /\ prPc \in InQueue
    /\ prPc' = "panicked"
    /\ panicMsg' = "queue"
    /\ UNCHANGED streamVars
    /\ UNCHANGED <<mainPc, running, paused, current, rawMode,
                   cursorVisible, restored, screenCleared, buffered, unflushed,
                   streams, nextId, dims, sawPaused, drawn, tape, spaceOdd,
                   tickEnd>>

\* stdout.flush() returns Ok: what the buffer held is on the terminal
PrinterFlushOk ==
    /\ ProcessAlive /\ prPc = "flush"
    /\ WriteOut
    /\ buffered' = FALSE
    /\ unflushed' = "none"
    /\ prPc' = "evict"
    /\ UNCHANGED streamVars
    /\ UNCHANGED <<mainPc, panicMsg, running, paused, current, rawMode,
                   streams, nextId, dims, sawPaused, drawn, tape, spaceOdd,
                   tickEnd>>

\* stdout.flush().unwrap() on an Err: the thread panics; what was queued
\* stays in the buffer
PrinterFlushErr ==
    /\ ProcessAlive /\ prPc = "flush"
    /\ prPc' = "panicked"
    /\ panicMsg' = "flush"
    /\ UNCHANGED streamVars
    /\ UNCHANGED <<mainPc, running, paused, current, rawMode,
                   cursorVisible, restored, screenCleared, buffered, unflushed, streams,
                   nextId, dims, sawPaused, drawn, tape, spaceOdd, tickEnd>>

PrinterEvict ==
    /\ ProcessAlive /\ prPc = "evict"
    /\ streams' = Evict(streams)
    /\ prPc' = "sleep"
    /\ UNCHANGED streamVars
    /\ UNCHANGED <<mainPc, panicMsg, running, paused, current, rawMode,
                   cursorVisible, restored, screenCleared, buffered, unflushed,
                   nextId, dims, sawPaused, drawn, tape, spaceOdd, tickEnd>>

\* thread::sleep(50ms) of either branch
PrinterSleep ==
    /\ ProcessAlive /\ prPc = "sleep"
    /\ prPc' = "loop"
    /\ tickEnd' = Len(streams)
    /\ UNCHANGED streamVars
    /\ UNCHANGED <<mainPc, panicMsg, running, paused, current, rawMode,
                   cursorVisible, restored, screenCleared, buffered, unflushed, streams,
                   nextId, dims, sawPaused, drawn, tape, spaceOdd>>

PrinterStep ==
    \/ PrinterCheckRunning \/ PrinterCheckPaused
    \/ PrinterSizeOk \/ PrinterSizeErr
    \/ PrinterSpawn \/ PrinterSpawnPanic \/ PrinterNoSpawn
    \/ PrinterUpdate \/ PrinterUpdatePanic
    \/ PrinterMoveTo \/ PrinterMoveToRest \/ PrinterColor \/ PrinterColorRest
    \/ PrinterPrint \/ PrinterQueueErr
    \/ PrinterFlushOk \/ PrinterFlushErr
    \/ PrinterEvict \/ PrinterSleep

----------------------------------------------------------------------------
(* The main thread: main() *)

\* what only the printer thread writes, its position aside
printerVars == <<panicMsg, streams, nextId, dims, sawPaused, drawn, tape, tickEnd>>

\* the key codes event::read delivers; "x" stands for every other key and
\* "resize" for an event that is not Event::Key
Events == {"q", "Q", " ", "x", "resize"}

\* mutant: the space arm is the catch-all arm, every other key toggles
KeyTarget_OtherToggles(code) ==
    CASE code \in {"q", "Q"} -> "quit"
      [] code = "resize"     -> "loop"
      [] OTHER               -> "toggle"

\* the match on the key code
KeyTarget(code) ==
    CASE code \in {"q", "Q"} -> "quit"
      [] code = " "          -> "toggle"
      [] OTHER               -> "loop"

\* execute! of main queues its commands and then flushes stdout. The commands
\* of a site reach stdout in one write_all call (Hide, Show) or in several
\* (a MoveTo alone takes several), each under its own lock of stdout
SingleWrite == {"hide", "show"}
\* the position of main between the writes of a site that takes several
RestOf(site) ==
    CASE site = "status" -> "status_rest"
      [] site = "final"  -> "final_rest"
\* the position of main between the last write of a site and its flush
FlushOf(site) ==
    CASE site = "hide"   -> "hide_flush"
      [] site = "status" -> "status_flush"
      [] site = "show"   -> "show_flush"
      [] site = "final"  -> "final_flush"

\* one write_all of main: the piece goes to stdout's buffer; when it does not
\* fit, what the buffer held (the draw commands the printer had queued) is
\* written to the terminal first. With the last piece (done) the commands of
\* the site stand complete in the buffer; no command of an earlier site is
\* left there, main has flushed it or has failed
MainWrite(site, done) ==
    /\ \E spill \in (IF BufferEmpty THEN {FALSE} ELSE BOOLEAN) :
          IF spill
          THEN WriteOut /\ buffered' = FALSE
          ELSE UNCHANGED <<cursorVisible, restored, screenCleared, buffered>>
    /\ unflushed' = IF done THEN site ELSE "none"
    /\ UNCHANGED streamVars
    /\ UNCHANGED printerVars
    /\ UNCHANGED <<prPc, running, paused, current, rawMode, spaceOdd>>

\* execute!, first half: the first write of the site's commands
MainQueue(site) ==
    /\ mainPc = site
    /\ MainWrite(site, site \in SingleWrite)
    /\ mainPc' = IF site \in SingleWrite THEN FlushOf(site) ELSE RestOf(site)

\* execute!, first half: a further write of the site's commands, the last
\* one or one before it
MainQueueRest(site) ==
    /\ mainPc = RestOf(site)
    /\ \E last \in BOOLEAN :
          /\ MainWrite(site, last)
          /\ mainPc' = IF last THEN FlushOf(site) ELSE RestOf(site)

\* execute!, second half: the flush returns Ok, the buffer (the commands of
\* main and what the printer had queued before them) is on the terminal
MainFlush(site, next) ==
    /\ mainPc = FlushOf(site)
    /\ WriteOut
    /\ buffered' = FALSE
    /\ unflushed' = "none"
    /\ mainPc' = next
    /\ UNCHANGED streamVars
    /\ UNCHANGED printerVars
    /\ UNCHANGED <<prPc, running, paused, current, rawMode, spaceOdd>>

\* a `?` on an Err: main returns the error; what stdout's buffer holds stays
\* there
MainFail ==
    /\ mainPc' = "failed"
    /\ UNCHANGED streamVars
    /\ UNCHANGED printerVars
    /\ UNCHANGED <<prPc, running, paused, current, rawMode, cursorVisible,
                   restored, screenCleared, buffered, unflushed, spaceOdd>>

\* the runtime's cleanup at the end of the process flushes stdout once more:
\* the buffer reaches the terminal, or is lost when the terminal still does
\* not take it
ExitFlush ==
    \E arrives \in (IF BufferEmpty THEN {FALSE} ELSE BOOLEAN) :
        IF arrives
        THEN WriteOut /\ buffered' = FALSE /\ unflushed' = "none"
        ELSE UNCHANGED <<cursorVisible, restored, screenCleared, buffered,
                         unflushed>>

\* enable_raw_mode()?
MainEnableRaw ==
    /\ mainPc = "start"
    /\ rawMode' = TRUE
    /\ mainPc' = "hide"
    /\ UNCHANGED streamVars
    /\ UNCHANGED printerVars
    /\ UNCHANGED <<prPc, running, paused, current, cursorVisible,
                   restored, screenCleared, buffered, unflushed,
                   spaceOdd>>

MainEnableRawErr == mainPc = "start" /\ MainFail

\* execute!(stdout(), Hide)?
MainHide == MainQueue("hide")
MainHideFlush == MainFlush("hide", "spawn")
MainHideErr == mainPc \in {"hide", FlushOf("hide")} /\ MainFail

\* thread::spawn
MainSpawn ==
    /\ mainPc = "spawn"
    /\ prPc' = "loop"
    /\ mainPc' = "loop"
    /\ UNCHANGED streamVars
    /\ UNCHANGED printerVars
    /\ UNCHANGED <<running, paused, current, rawMode, cursorVisible,
                   restored, screenCleared, buffered, unflushed,
                   spaceOdd>>

\* while running.load(SeqCst)
MainLoop ==
    /\ mainPc = "loop"
    /\ mainPc' = IF running THEN "poll" ELSE "show"
    /\ UNCHANGED streamVars
    /\ UNCHANGED printerVars
    /\ UNCHANGED <<prPc, running, paused, current, rawMode, cursorVisible,
                   restored, screenCleared, buffered, unflushed,
                   spaceOdd>>

\* event::poll(100ms)? returned Ok(ready)
MainPoll ==
    /\ mainPc = "poll"
    /\ \E ready \in BOOLEAN : mainPc' = IF ready THEN "read" ELSE "loop"
    /\ UNCHANGED streamVars
    /\ UNCHANGED printerVars
    /\ UNCHANGED <<prPc, running, paused, current, rawMode, cursorVisible,
                   restored, screenCleared, buffered, unflushed,
                   spaceOdd>>

MainPollErr == mainPc = "poll" /\ MainFail

\* event::read()? returned Ok(event)
MainRead ==
    /\ mainPc = "read"
    /\ \E e \in Events :
          /\ mainPc' = KeyTarget(e)
          /\ spaceOdd' = IF e = " " THEN ~spaceOdd ELSE spaceOdd
    /\ UNCHANGED streamVars
    /\ UNCHANGED printerVars
    /\ UNCHANGED <<prPc, running, paused, current, rawMode, cursorVisible,
                   restored, screenCleared, buffered, unflushed>>

MainReadErr == mainPc = "read" /\ MainFail

\* mutant: running.store(true, SeqCst); break
MainQuit_StoresTrue ==
    /\ mainPc = "quit"
    /\ running' = TRUE
    /\ mainPc' = "show"
    /\ UNCHANGED streamVars
    /\ UNCHANGED printerVars
    /\ UNCHANGED <<prPc, paused, current, rawMode, cursorVisible,
                   restored, screenCleared, buffered, unflushed,
                   spaceOdd>>

\* running.store(false, SeqCst); break
MainQuit ==
    /\ mainPc = "quit"
    /\ running' = FALSE
    /\ mainPc' = "show"
    /\ UNCHANGED streamVars
    /\ UNCHANGED printerVars
    /\ UNCHANGED <<prPc, paused, current, rawMode, cursorVisible,
                   restored, screenCleared, buffered, unflushed,
                   spaceOdd>>

\* let current = paused.load(SeqCst)
MainToggleLoad ==
    /\ mainPc = "toggle"
    /\ current' = paused
    /\ mainPc' = "store"
    /\ UNCHANGED streamVars
    /\ UNCHANGED printerVars
    /\ UNCHANGED <<prPc, running, paused, rawMode, cursorVisible,
                   restored, screenCleared, buffered, unflushed,
                   spaceOdd>>

\* paused.store(!current, SeqCst); if !current { ... }
MainToggleStore ==
    /\ mainPc = "store"
    /\ paused' = ~current
    /\ mainPc' = IF ~current THEN "status" ELSE "loop"
    /\ UNCHANGED streamVars
    /\ UNCHANGED printerVars
    /\ UNCHANGED <<prPc, running, current, rawMode, cursorVisible,
                   restored, screenCleared, buffered, unflushed,
                   spaceOdd>>

\* execute!(stdout(), MoveTo(0, 0), Print("*PAUSED* ..."))?
MainStatus == MainQueue("status")
MainStatusRest == MainQueueRest("status")
MainStatusFlush == MainFlush("status", "loop")
MainStatusErr ==
    mainPc \in {"status", RestOf("status"), FlushOf("status")} /\ MainFail

\* execute!(stdout(), Show)?
MainShow == MainQueue("show")
MainShowFlush == MainFlush("show", "raw_off")
MainShowErr == mainPc \in {"show", FlushOf("show")} /\ MainFail

\* disable_raw_mode()?
MainDisableRaw ==
    /\ mainPc = "raw_off"
    /\ rawMode' = FALSE
    /\ restored' = restored \cup {"raw_off"}
    /\ mainPc' = "join"
    /\ UNCHANGED streamVars
    /\ UNCHANGED printerVars
    /\ UNCHANGED <<prPc, running, paused, current, cursorVisible,
                   screenCleared, buffered, unflushed, spaceOdd>>

MainDisableRawErr == mainPc = "raw_off" /\ MainFail

\* printer_thread.join().unwrap(): blocks until the thread has terminated;
\* the unwrap panics when the thread panicked
MainJoin ==
    /\ mainPc = "join"
    /\ PrinterTerminated
    /\ mainPc' = IF prPc = "panicked" THEN "unwinding" ELSE "final"
    /\ UNCHANGED streamVars
    /\ UNCHANGED printerVars
    /\ UNCHANGED <<prPc, running, paused, current, rawMode, cursorVisible,
                   restored, screenCleared, buffered, unflushed, spaceOdd>>

\* execute!(stdout(), SetForegroundColor(Reset), Clear(All), MoveTo(0, 0))?
MainFinal == MainQueue("final")
MainFinalRest == MainQueueRest("final")
MainFinalFlush == MainFlush("final", "exit_ok")
MainFinalErr ==
    mainPc \in {"final", RestOf("final"), FlushOf("final")} /\ MainFail

\* main has returned Err: the runtime reports it, cleans up and the process
\* exits with status 1
MainExitErr ==
    /\ mainPc = "failed"
    /\ ExitFlush
    /\ mainPc' = "exit_err"
    /\ UNCHANGED streamVars
    /\ UNCHANGED printerVars
    /\ UNCHANGED <<prPc, running, paused, current, rawMode, spaceOdd>>

\* main has panicked: the runtime catches the unwinding, cleans up and the
\* process exits with status 101
MainExitPanic ==
    /\ mainPc = "unwinding"
    /\ ExitFlush
    /\ mainPc' = "panicked"
    /\ UNCHANGED streamVars
    /\ UNCHANGED printerVars
    /\ UNCHANGED <<prPc, running, paused, current, rawMode, spaceOdd>>

MainStep ==
    \/ MainEnableRaw \/ MainEnableRawErr
    \/ MainHide \/ MainHideFlush \/ MainHideErr
    \/ MainSpawn \/ MainLoop
    \/ MainPoll \/ MainPollErr
    \/ MainRead \/ MainReadErr
    \/ MainQuit \/ MainToggleLoad \/ MainToggleStore
    \/ MainStatus \/ MainStatusRest \/ MainStatusFlush \/ MainStatusErr
    \/ MainShow \/ MainShowFlush \/ MainShowErr
    \/ MainDisableRaw \/ MainDisableRawErr
    \/ MainJoin
    \/ MainFinal \/ MainFinalRest \/ MainFinalFlush \/ MainFinalErr
    \/ MainExitErr \/ MainExitPanic

----------------------------------------------------------------------------
(* The program *)

NoStream == [x |-> 0, y |-> 0, direction |-> "Left"]
NoProbe == [fn |-> "none"]

\* the state of the program before main's first statement
InitProgram ==
    /\ mainPc = "start"
    /\ prPc = "unspawned"
    /\ panicMsg = "none"
    /\ running = TRUE
    /\ paused = FALSE
    /\ current = FALSE
    /\ rawMode = FALSE
    /\ cursorVisible = TRUE
    /\ restored = {}
    /\ screenCleared = FALSE
    /\ buffered = FALSE
    /\ unflushed = "none"
    /\ streams = <<>>
    /\ nextId = 0
    /\ dims = <<0, 0>>
    /\ sawPaused = FALSE
    /\ drawn = 0
    /\ tape = 0
    /\ spaceOdd = FALSE
    /\ tickEnd = 0

Init ==
    /\ InitProgram
    /\ st = NoStream /\ mx = 0 /\ my = 0 /\ updated = FALSE
    /\ probe = NoProbe

Next == MainStep \/ PrinterStep

Spec == Init /\ [][Next]_vars

\* both threads are scheduled by the operating system: neither is starved
FairSpec == Spec /\ WF_vars(MainStep) /\ WF_vars(PrinterStep)

----------------------------------------------------------------------------
(* A single stream: Stream::new, then Stream::update any number of times   *)
(* with the same dimensions, as tests::test_stream_bounds drives it.       *)

\* the widths at which `max_x as i16` and its differences leave the i16
\* range, and the largest width below them
EdgeWidths == {I16Max, I16Max + 1, I16Max + 2, U16 - 1}
\* the height that lets Stream::new draw the last row of the i16 range and
\* the rows whose `as i16` is negative
EdgeHeights == {U16 - 1}
Widths == (0..MaxWidth) \cup {TestWidth} \cup EdgeWidths
Heights == (0..MaxHeight) \cup EdgeHeights

\* the columns in which a stream is followed under the width max_x (the
\* bounds XCap and Margin)
FollowedColumns(max_x) ==
    { c \in (0..(IF max_x <= TestWidth THEN max_x ELSE XCap))
                      \cup ((I16Max - Margin)..(I16Max + Margin))
                      \cup ((max_x - Margin)..(max_x + Margin))
                      \cup ((U16 - 1 - Margin)..(U16 - 1)) :
          0 <= c /\ c < U16 }
\* the rows in which a stream is followed (the bound YCap)
FollowedRows ==
    (0..YCap) \cup ((I16Max - YCap)..(I16Max + YCap))
              \cup ((U16 - 1 - YCap)..(U16 - 1))

\* a stream in a followed position, or a panic
Followed(r, max_x) ==
    IF IsPanic(r) THEN TRUE
    ELSE r.x \in FollowedColumns(max_x) /\ r.y \in FollowedRows

\* the outcomes of Stream::new(max_x, max_y): a panic, or a stream for
\* every draw of rng.gen_range(0..max_x), rng.gen_range(0..max_y) and
\* Direction::random that puts it in a followed position
NewOutcomes(max_x, max_y) ==
    IF IsPanic(StreamNew(max_x, max_y, 0, 0, 0))
    THEN {StreamNew(max_x, max_y, 0, 0, 0)}
    ELSE { StreamNew(max_x, max_y, xd, yd, dd) :
               xd \in { c \in FollowedColumns(max_x) : c < max_x },
               yd \in { r \in FollowedRows : r < max_y },
               dd \in 0..(Cardinality(Directions) - 1) }

\* the outcomes of stream.update(max_x, _) over both outcomes of the trial,
\* every direction drawn and both builds
AllUpdateOutcomes(s, max_x) ==
    { StreamUpdate(s, max_x, trial, dd, build) :
          trial \in BOOLEAN,
          dd \in 0..(Cardinality(Directions) - 1),
          build \in Builds }

InitStream ==
    /\ InitProgram
    /\ probe = NoProbe
    /\ mx \in Widths
    /\ my \in Heights
    /\ st \in NewOutcomes(mx, my)
    /\ updated = FALSE

\* stream.update(max_x, max_y)
UpdateStream ==
    /\ ~IsPanic(st)
    /\ st' \in AllUpdateOutcomes(st, mx)
    /\ Followed(st', mx)
    /\ updated' = TRUE
    /\ UNCHANGED <<mx, my, probe>>
    /\ UNCHANGED progVars

NextStream == UpdateStream

SpecStream == InitStream /\ [][NextStream]_vars

----------------------------------------------------------------------------
(* A single stream across a resize: size() is queried in every tick, so an  *)
(* update may be handed a max_x other than that of the update before it.    *)

\* stream.update(max_x, max_y) in a tick whose size() reports another width
ResizeUpdate ==
    /\ ~IsPanic(st)
    /\ \E w \in Widths \ {mx} :
          /\ mx' = w
          /\ st' \in AllUpdateOutcomes(st, w)
    /\ Followed(st', mx')
    /\ updated' = TRUE
    /\ UNCHANGED <<my, probe>>
    /\ UNCHANGED progVars

NextResize == UpdateStream \/ ResizeUpdate

SpecResize == InitStream /\ [][NextResize]_vars

----------------------------------------------------------------------------
(* random_color: weighted choice over COLORS *)

U8 == 256

\* Color::AnsiValue(n) and Color::White
AnsiValue(n) == <<"AnsiValue", n>>
White == <<"White", 0>>

\* const COLORS
COLORS == <<
    [kind |-> "Accent",  color |-> AnsiValue(0),   weight |-> 10],
    [kind |-> "Accent",  color |-> AnsiValue(18),  weight |-> 10],
    [kind |-> "Accent",  color |-> AnsiValue(29),  weight |-> 10],
    [kind |-> "Accent",  color |-> AnsiValue(39),  weight |-> 10],
    [kind |-> "Accent",  color |-> AnsiValue(128), weight |-> 10],
    [kind |-> "Accent",  color |-> AnsiValue(199), weight |-> 10],
    [kind |-> "Accent",  color |-> AnsiValue(206), weight |-> 10],
    [kind |-> "Primary", color |-> AnsiValue(255), weight |-> 30] >>

RECURSIVE WeightSum(_)
\* the sum of the weights of the first i entries
WeightSum(i) == IF i = 0 THEN 0 ELSE WeightSum(i - 1) + COLORS[i].weight

\* let total_weight: u8 = COLORS.iter().map(..).sum()
TotalWeight == WeightSum(Len(COLORS)) % U8

RECURSIVE ColorScan_Inclusive(_, _)
\* mutant: the entry is taken when choice <= weight
ColorScan_Inclusive(i, choice) ==
    IF i > Len(COLORS) THEN White
    ELSE IF choice <= COLORS[i].weight THEN COLORS[i].color
    ELSE ColorScan_Inclusive(i + 1, choice - COLORS[i].weight)

RECURSIVE ColorScan(_, _)
\* the for loop of random_color from entry i on, with `choice` as it stands;
\* Color::White when the loop runs out
ColorScan(i, choice) ==
    IF i > Len(COLORS) THEN White
    ELSE IF choice < COLORS[i].weight THEN COLORS[i].color
    ELSE ColorScan(i + 1, choice - COLORS[i].weight)

\* random_color, given the outcome of rng.gen_range(0..total_weight)
RandomColor(draw) == ColorScan(1, draw)

InitColor ==
    /\ InitProgram
    /\ st = NoStream /\ mx = 0 /\ my = 0 /\ updated = FALSE
    /\ \E d \in 0..(TotalWeight - 1) :
          probe = [fn |-> "color", draw |-> d, done |-> FALSE, result |-> <<"none", 0>>]

\* random_color()
CallRandomColor ==
    /\ probe.fn = "color" /\ ~probe.done
    /\ probe' = [probe EXCEPT !.done = TRUE, !.result = RandomColor(probe.draw)]
    /\ UNCHANGED <<st, mx, my, updated>>
    /\ UNCHANGED progVars

NextColor == CallRandomColor

SpecColor == InitColor /\ [][NextColor]_vars

----------------------------------------------------------------------------
(* random_string: 1 to 16 glyphs of CHAR_SET, concatenated *)

\* the largest stride of the glyph draws tried
MaxStride == 3

\* const CHAR_SET; a &str is the sequence of the code points of its chars, as
\* they stand in the source file
CHAR_SET == <<
    <<65, 204, 181, 204, 166, 204, 166, 204, 8220, 205, 338, 205, 8212, 205, 8250, 204, 8226>>,
    <<65>>,
    <<226, 8218, 179>>,
    <<226, 8211, 8216, 65, 226, 8211, 8216>>,
    <<65, 210, 8240>>,
    <<200, 186>>,
    <<65, 204, 183>>,
    <<65, 204, 178>>,
    <<65, 204, 179>>,
    <<65, 204, 190>>,
    <<65, 205, 381>>,
    <<65, 205, 8220, 204, 189>>,
    <<240, 8221, 184>>,
    <<225, 180, 8364>>,
    <<226, 710, 8364>> >>

\* mutant: the length is drawn from 0..=15
StringLength_FromZero(r) == r
\* rng.gen_range(1..=16): the r-th value of the range, r in 0..15
StringLength(r) == 1 + r

\* the i-th outcome (i = 0, 1, ...) of rng.gen_range(0..CHAR_SET.len()) in
\* the family of draw sequences tried: seed, seed + stride, ... (mod 15)
GlyphDraw(seed, stride, i) == (seed + i * stride) % Len(CHAR_SET)

RECURSIVE Collect(_, _, _, _)
\* (0..length).map(|_| CHAR_SET[..]).collect(): the glyphs i..length-1
Collect(i, length, seed, stride) ==
    IF i >= length THEN <<>>
    ELSE CHAR_SET[GlyphDraw(seed, stride, i) + 1] \o Collect(i + 1, length, seed, stride)

\* random_string, given the draw of the length and the draws of the glyphs
RandomString(r, seed, stride) == Collect(0, StringLength(r), seed, stride)

InitString ==
    /\ InitProgram
    /\ st = NoStream /\ mx = 0 /\ my = 0 /\ updated = FALSE
    /\ \E r \in 0..15, seed \in 0..(Len(CHAR_SET) - 1), stride \in 0..MaxStride :
          probe = [fn |-> "string", len |-> r, seed |-> seed, stride |-> stride,
                   done |-> FALSE, result |-> <<>>]

\* random_string()
CallRandomString ==
    /\ probe.fn = "string" /\ ~probe.done
    /\ probe' = [probe EXCEPT !.done = TRUE,
                              !.result = RandomString(probe.len, probe.seed, probe.stride)]
    /\ UNCHANGED <<st, mx, my, updated>>
    /\ UNCHANGED progVars

NextString == CallRandomString

SpecString == InitString /\ [][NextString]_vars

----------------------------------------------------------------------------
(* Claims *)

InTick == {"size", "chaos", "update", "flush", "evict"} \cup InQueue
Ids(s) == {s[i].id : i \in 1..Len(s)}

\* the printer has loaded running = true for this tick and has not finished
\* rendering it: it can still spawn, update streams and issue draw commands
CanStillDraw ==
    prPc \in {"paused?", "size", "chaos", "update", "flush"} \cup InQueue

\* C1: the driver has executed no terminal-restoration step (show cursor,
\* leave raw mode, reset colour, clear screen) in any state in which the
\* printer thread can still update streams or issue draw commands.
C1_RestoreOnlyAfterPrinter == restored # {} => ~CanStillDraw

\* C2: whenever main has returned or panicked, the terminal is non-raw and
\* the cursor is visible.
C2_ExitLeavesTerminalUsable == mainPc \in Exited => (~rawMode /\ cursorVisible)

\* the bounds the update is meant to keep: 1 <= x <= max_x - 2 and y >= 1
InBounds(s, max_x) == 1 <= s.x /\ s.x <= max_x - 2 /\ s.y >= 1

\* C3: after every update of a stream made by Stream::new(max_x, max_y),
\* 1 <= x <= max_x - 2 and y >= 1 (stated of the widths 3 .. i16::MAX and of
\* the updates that return).
C3_StreamBounds ==
    IF updated /\ 3 <= mx /\ mx <= I16Max /\ ~IsPanic(st)
    THEN InBounds(st, mx)
    ELSE TRUE

\* C4: at the end of every tick (the sleep, and the loop check after it) the
\* collection holds at most 20 streams.
C4_PopulationCap == prPc \in {"sleep", "loop", "paused?", "done"} => Len(streams) <= MaxStreams

C4_Witness ==
    /\ prPc = "loop" /\ Len(streams) = MaxStreams /\ nextId > MaxStreams
    /\ sawPaused /\ paused

\* C5: a stream leaves the collection only in the eviction step of a tick
\* whose population exceeds 20; that step removes exactly the stream at the
\* head, which is the earliest created one, and keeps the order of the rest;
\* an eviction step at or below 20 removes nothing.
C5_FifoEviction ==
    [][ /\ (Ids(streams) \ Ids(streams') # {}) =>
              /\ prPc = "evict"
              /\ Len(streams) > MaxStreams
              /\ streams' = Tail(streams)
              /\ \A i \in 1..Len(streams) : streams[1].id <= streams[i].id
        /\ (prPc = "evict" /\ prPc' = "sleep") =>
              /\ Len(streams) > MaxStreams => Len(streams') = Len(streams) - 1
              /\ Len(streams) <= MaxStreams => streams' = streams
      ]_vars

C5_Witness ==
    /\ prPc = "sleep" /\ Len(streams) = MaxStreams
    /\ streams[1].id = 2 /\ nextId = MaxStreams + 2

\* C6: a tick that loads paused = true goes straight to its sleep: it spawns
\* no stream, updates no stream and queues no draw command; a tick that
\* loads paused = false goes on to render, and its for loop queues one draw
\* command per stream.
C6_PauseFreezes ==
    [][ /\ (prPc = "paused?" /\ prPc' # prPc /\ paused) =>
              (prPc' = "sleep" /\ UNCHANGED <<streams, nextId, drawn>>)
        /\ (prPc = "paused?" /\ prPc' # prPc /\ ~paused) => prPc' = "size"
        /\ (streams' # streams \/ nextId' # nextId \/ drawn' > drawn) =>
              (~sawPaused /\ prPc \in InTick)
        /\ (prPc \in InQueue /\ prPc' \notin {prPc, "panicked"}) =>
              (~sawPaused /\ buffered')
        /\ (prPc \in {"chaos", "print"} /\ prPc' = "flush") =>
              drawn' = Len(streams')
      ]_vars

C6_Witness ==
    /\ prPc = "sleep" /\ sawPaused /\ paused /\ drawn = 0
    /\ Len(streams) > 0 /\ mainPc = "poll"

\* an I/O operation has failed: a `?` of main returned its error, or the
\* unwrap of queue! or of flush panicked in the printer
IoFailed ==
    \/ mainPc = "exit_err"
    \/ (prPc = "panicked" /\ panicMsg \in {"queue", "flush"})

\* C7: once the input loop has handled 'q' / 'Q' (running is false) then,
\* unless an I/O operation has failed, main ends only by returning Ok, with
\* the printer loop ended and the terminal non-raw, cursor-visible and
\* cleared.
C7_CooperativeQuit ==
    (mainPc \in Exited /\ ~running /\ ~IoFailed) =>
        /\ mainPc = "exit_ok" /\ prPc = "done"
        /\ ~rawMode /\ cursorVisible /\ screenCleared
        /\ restored = AllRestoration

\* C8: a failed size(), queue! or flush does not end the printer thread.
C8_PrinterSurvivesIoErrors ==
    ~(prPc = "panicked" /\ panicMsg \in {"queue", "flush"})

\* C9: when the driver ends on the failure of the printer thread, all five
\* shutdown steps have been executed.
C9_TeardownSurvivesFailedPrinter ==
    (mainPc = "panicked" /\ prPc = "panicked") => restored = AllRestoration

\* the step is one of the printer thread
PrinterMoved ==
    \/ (prPc' # prPc /\ prPc # "unspawned")
    \/ printerVars' # printerVars

\* C10: running starts true and paused false; no step of the printer thread
\* changes either flag; running changes only in the handling of 'q' / 'Q'
\* and paused only in the handling of space.
C10_FlagOwnership ==
    [][ /\ mainPc = "start" => (running /\ ~paused)
        /\ PrinterMoved => UNCHANGED <<running, paused>>
        /\ running' # running => (mainPc = "quit" /\ mainPc' = "show")
        /\ paused' # paused => (mainPc = "store" /\ mainPc' # mainPc)
      ]_vars

C10_Witness == ~running /\ paused /\ prPc = "done" /\ nextId > 0

\* C11: an update that is handed a changed max_x (>= 3) leaves the stream
\* with 1 <= x <= max_x - 2 for the new max_x (here: between widths in
\* 3 .. i16::MAX, for a stream that was within the bounds of the width
\* before and an update that returns).
C11_BoundsAfterResize ==
    [][ IF /\ mx' # mx /\ 3 <= mx' /\ mx' <= I16Max
           /\ 3 <= mx /\ mx <= I16Max
           /\ ~IsPanic(st) /\ ~IsPanic(st')
        THEN InBounds(st, mx) => (1 <= st'.x /\ st'.x <= mx' - 2)
        ELSE TRUE ]_vars

\* the smallest index whose cumulative weight exceeds d
FirstExceeding(d) ==
    CHOOSE i \in 1..Len(COLORS) :
        /\ WeightSum(i) > d
        /\ \A j \in 1..(i - 1) : WeightSum(j) <= d
\* the draws that select the colour c
DrawsOf(c) == {d \in 0..99 : RandomColor(d) = c}

\* C12: for every draw d in [0, 100) random_color returns the colour of the
\* entry with the smallest index whose cumulative weight exceeds d; 30 draws
\* select the Primary entry, 10 each Accent entry, none Color::White.
C12_WeightedColor ==
    (probe.fn = "color" /\ probe.done) =>
        /\ probe.draw \in 0..99
        /\ \E i \in 1..Len(COLORS) : WeightSum(i) > probe.draw
        /\ probe.result = COLORS[FirstExceeding(probe.draw)].color
        /\ probe.result # White
        /\ \A i \in 1..Len(COLORS) :
              Cardinality(DrawsOf(COLORS[i].color)) =
                  IF COLORS[i].kind = "Primary" THEN 30 ELSE 10
        /\ Cardinality({i \in 1..Len(COLORS) : COLORS[i].kind = "Accent"}) = 7
        /\ DrawsOf(White) = {}

C12_Witness ==
    /\ probe.fn = "color" /\ probe.done
    /\ probe.draw = 70 /\ probe.result = AnsiValue(255)

\* main has not yet handled a 'q' / 'Q'
BeforeQuit == {"start", "hide", "hide_flush", "spawn", "loop", "poll", "read",
               "toggle", "store", "status", "status_rest", "status_flush",
               "quit"}
\* every key event read so far has been handled to the end of its match arm
EventsHandled == {"loop", "poll", "read", "status", "status_rest",
                  "status_flush"}

\* C13: before the first 'q' / 'Q' is handled running is true; once every key
\* read has been handled, paused is the parity of the space keys read; the
\* handling of space toggles paused; a key other than space / q / Q returns
\* to the loop with both flags unchanged; the pause message is issued exactly
\* by the space presses that move paused from false to true.
C13_KeyHandling ==
    [][ /\ mainPc \in BeforeQuit => running
        /\ mainPc \in EventsHandled => paused = spaceOdd
        /\ mainPc' \in EventsHandled => paused' = spaceOdd'
        /\ (mainPc = "store" /\ mainPc' # mainPc) => paused' = ~paused
        /\ (mainPc = "read" /\ mainPc' = "loop") => UNCHANGED <<running, paused>>
        /\ (mainPc # "status" /\ mainPc' = "status") <=>
              (mainPc = "store" /\ ~paused /\ paused')
      ]_vars

C13_Witness ==
    /\ mainPc = "loop" /\ current /\ ~paused /\ ~spaceOdd /\ running
    /\ tickEnd > 0

\* the glyph g stands in s at position pos
GlyphAt(s, pos, g) ==
    /\ pos + Len(g) - 1 <= Len(s)
    /\ SubSeq(s, pos, pos + Len(g) - 1) = g

RECURSIVE GlyphCounts(_, _)
\* the numbers of catalog glyphs the rest of s from pos on can be cut into
GlyphCounts(s, pos) ==
    IF pos > Len(s) THEN {0}
    ELSE UNION { {1 + n : n \in GlyphCounts(s, pos + Len(CHAR_SET[g]))} :
                 g \in {h \in 1..Len(CHAR_SET) : GlyphAt(s, pos, CHAR_SET[h])} }

\* C14: random_string returns a non-empty string that is a concatenation of
\* between 1 and 16 entries of the 15-entry CHAR_SET; every char of it occurs
\* in some entry.
C14_RandomString ==
    (probe.fn = "string" /\ probe.done) =>
        /\ Len(CHAR_SET) = 15
        /\ probe.result # <<>>
        /\ \E k \in 1..16 : k \in GlyphCounts(probe.result, 1)
        /\ GlyphCounts(probe.result, 1) \subseteq 1..16
        /\ \A i \in 1..Len(probe.result) :
              \E g \in 1..Len(CHAR_SET) : \E j \in 1..Len(CHAR_SET[g]) :
                  CHAR_SET[g][j] = probe.result[i]

C14_Witness ==
    /\ probe.fn = "string" /\ probe.done
    /\ probe.len = 15 /\ 16 \in GlyphCounts(probe.result, 1)
    /\ probe.stride = 1

\* the transition rule of the claim, from s to t, for one outcome of the trial
TransitionRule(s, t, max_x, trial) ==
    LET cx == s.x + GetOffset(s.direction)[1]
        cy == s.y + GetOffset(s.direction)[2]
    IN  IF cx <= 0 \/ cx >= max_x - 2 \/ cy <= 0 \/ trial
        THEN /\ t.direction \in Directions
             /\ t.x = IF cx <= 0 THEN 1
                      ELSE IF cx >= max_x - 1 THEN max_x - 2
                      ELSE s.x
             /\ t.y = IF cy <= 0 THEN 1 ELSE s.y
        ELSE /\ t.direction = s.direction
             /\ t.x = cx
             /\ t.y = cy

\* C15: every update follows the transition rule: when the candidate hits a
\* boundary (x <= 0, x >= max_x - 2, y <= 0) or the trial succeeds, a
\* direction is drawn and the position changes only by the clamps (x to 1,
\* x to max_x - 2 from max_x - 1 on, y to 1); otherwise the candidate is
\* committed and the direction kept (stated of the widths 2 .. i16::MAX).
C15_TransitionRule ==
    [][ IF ~IsPanic(st) /\ 2 <= mx /\ mx <= I16Max
        THEN IF IsPanic(st') THEN FALSE
             ELSE \E trial \in BOOLEAN : TransitionRule(st, st', mx, trial)
        ELSE TRUE ]_vars

\* C16: for max_x >= 3 an update of a stream with 1 <= x <= max_x - 2 and
\* y >= 1 leaves it with 1 <= x <= max_x - 2 and y >= 1, whatever the
\* direction and the trial; y is not bounded above and may exceed max_y.
C16_BoundsPreserved ==
    [][ IF mx >= 3 /\ ~IsPanic(st)
        THEN InBounds(st, mx) =>
                 IF IsPanic(st') THEN FALSE ELSE InBounds(st', mx')
        ELSE TRUE ]_vars

\* an update of s, were it heading d, with a failing trial returns and has
\* changed the position, in the given build
Moves(s, max_x, d, build) ==
    LET t == StreamUpdate([s EXCEPT !.direction = d], max_x, FALSE, 0, build)
    IN  IF IsPanic(t) THEN FALSE ELSE (t.x # s.x \/ t.y # s.y)
\* in either build some direction moves the stream
CanMove(s, max_x) ==
    \A build \in Builds : \E d \in Directions : Moves(s, max_x, d, build)

\* C17: for every width and every stream state reachable from Stream::new
\* through updates there is a direction for which an update whose trial
\* fails changes the position (stated of the widths from 4 columns on, where
\* the turn test leaves a column free between x = 1 and x = max_x - 2).
C17_NeverStuck ==
    IF 4 <= mx /\ ~IsPanic(st)
    THEN CanMove(st, mx)
    ELSE TRUE

\* the positions of the printer between the end of a tick and the next tick
BetweenTicks == {"loop", "paused?", "done"}

\* C18: the stream count at the end of a tick (at its sleep) is never below
\* the count at the end of the tick before, and once that was 20 it is 20.
C18_StableAtCap ==
    /\ prPc = "sleep" =>
          /\ Len(streams) >= tickEnd
          /\ tickEnd = MaxStreams => Len(streams) = MaxStreams
    /\ prPc \in BetweenTicks => Len(streams) = tickEnd

C18_Witness ==
    /\ prPc = "sleep" /\ ~sawPaused /\ drawn = MaxStreams + 1
    /\ tickEnd = MaxStreams /\ Len(streams) = MaxStreams

\* C19: the collection never holds more than 21 streams, it holds at most 20
\* whenever the printer is about to load running or paused at the top of its
\* loop, and one tick queues the draw commands of at most 21 streams.
C19_CapAfterDrawing ==
    /\ Len(streams) <= MaxStreams + 1
    /\ prPc \in {"loop", "paused?"} => Len(streams) <= MaxStreams
    /\ drawn <= MaxStreams + 1
    /\ prPc = "flush" => drawn = Len(streams)

C19_Witness ==
    /\ prPc = "flush" /\ Len(streams) = MaxStreams + 1 /\ drawn = MaxStreams + 1

\* C20: running starts true; the handling of 'q' / 'Q' sets it false; no step
\* sets it back to true; the printer, once its loop has ended, stays ended.
C20_RunningMonotone ==
    [][ /\ mainPc = "start" => running
        /\ (mainPc = "quit" /\ mainPc' # mainPc) => ~running'
        /\ ~running => ~running'
        /\ prPc = "done" => (prPc' = "done" /\ ~running)
      ]_vars

C20_Witness ==
    /\ ~running /\ prPc = "done" /\ mainPc = "exit_ok" /\ tickEnd > 0 /\ ~paused

====
